---------------------------- MODULE Spec2Model ----------------------------
(***************************************************************************)
(* gssnng: gene set scoring on nearest-neighbour smoothed expression.      *)
(*                                                                         *)
(* Two entry points are modelled as one state machine:                     *)
(*   with_gene_sets  (src/gssnng/score_cells.py): validation, grouping,    *)
(*                   pool dispatch of one worker task per group, concat    *)
(*                   of the per-group tables, left join onto adata.obs;    *)
(*   score_cells     (src/gssnng/scoring.py): the single-gene-set path,    *)
(*                   _score_all_cells_at_once and _ms_sing.                *)
(*                                                                         *)
(* The smoothed expression matrix is the output of the external, stochastic*)
(* nn_smoothing; each of its rows is read exactly once (X[cell_ix]) and is *)
(* chosen from Rows at the step that reads it.                             *)
(*                                                                         *)
(* Numbers: scores are exact rationals <<num, den>> in lowest terms with   *)
(* den > 0; <<0, 0>> is not-a-number.  The mad statistic is kept in units  *)
(* of 1/c (c the normal consistency constant of statsmodels' mad).         *)
(***************************************************************************)
EXTENDS Integers, Sequences, FiniteSets, TLC

\* ------------------------------------------------------------------ bounds
\* number of cells (rows of adata), barcodes are 1..NCells in row order
NCells == 2
\* largest smoothed expression value of one gene in one cell
MaxCount == 2
\* longest gene_set_up / gene_set_down list of the single-gene-set path
MaxSetLen == 2
\* largest value of the cores parameter
MaxCores == 2

Cells == 1..NCells
\* the gene identifiers (adata.var.index); the gene sets below name them
Genes == {1, 2}
\* one row of the smoothed matrix: a value per gene, 0 = not stored (sparse)
Rows == [Genes -> 0..MaxCount]
\* values of the label column adata.obs[groupby]
Categories == {"a", "b"}
\* values tried for noise_trials and recompute_neighbors
NoiseTrialsValues == {0, 2}
RecomputeValues == {0, 5}
\* the gene sets read from gene_set_file (gs_obj.set_list): name and genes
SetList == << [name |-> "S1", genes |-> <<1, 2>>] >>
SetNames == {SetList[k].name : k \in 1..Len(SetList)}
\* gene lists of the single-gene-set path (duplicates and [] included)
GeneLists == UNION {[1..n -> Genes] : n \in 0..MaxSetLen}

\* --------------------------------------------------------------- rationals
NaN == <<0, 0>>

IsNaN(a) == a[2] = 0

RECURSIVE Gcd(_, _)
Gcd(a, b) == IF b = 0 THEN a ELSE Gcd(b, a % b)

Abs(n) == IF n < 0 THEN -n ELSE n

\* n/d in lowest terms, d > 0
Rat(n, d) == LET g == Gcd(Abs(n), d) IN <<n \div g, d \div g>>

RatAdd(a, b) == IF IsNaN(a) \/ IsNaN(b) THEN NaN ELSE Rat(a[1] * b[2] + b[1] * a[2], a[2] * b[2])

RatDivInt(a, n) == IF IsNaN(a) \/ n = 0 THEN NaN ELSE Rat(a[1], a[2] * n)

RECURSIVE SeqSum(_)
SeqSum(s) == IF s = <<>> THEN 0 ELSE Head(s) + SeqSum(Tail(s))

\* twice the median of a non-empty sequence of integers (numpy.median)
Median2(s) ==
    LET t == SortSeq(s, LAMBDA a, b : a < b)
        n == Len(t)
    IN  IF n % 2 = 1 THEN 2 * t[(n + 1) \div 2] ELSE t[n \div 2] + t[n \div 2 + 1]

\* ------------------------------------------------- scoring.py: _ms_sing
\* sparse.find + DataFrame(gene_mat[gdx], index=var.index[gdx]): the stored
\* (nonzero) genes of the row and their values
GeneCounts(row) == [g \in {h \in Genes : row[h] # 0} |-> row[g]]

\* x.rank(method='min', ascending=rankup)
RankMin(x, ascending) ==
    [g \in DOMAIN x |->
        1 + Cardinality({h \in DOMAIN x : IF ascending THEN x[h] < x[g] ELSE x[h] > x[g]})]

\* the loop of _ms_sing over geneset, from position j with su and sig_len_up so far
RECURSIVE CollectRanksNoDecrement(_, _, _, _, _)
CollectRanksNoDecrement(geneset, up_sort, j, su, sig_len_up) ==
    IF j > Len(geneset) THEN [su |-> su, sig_len_up |-> sig_len_up]
    ELSE IF geneset[j] \in DOMAIN up_sort
         THEN CollectRanksNoDecrement(geneset, up_sort, j + 1, Append(su, up_sort[geneset[j]]), sig_len_up)
         ELSE CollectRanksNoDecrement(geneset, up_sort, j + 1, su, sig_len_up)

RECURSIVE CollectRanks(_, _, _, _, _)
CollectRanks(geneset, up_sort, j, su, sig_len_up) ==
    IF j > Len(geneset) THEN [su |-> su, sig_len_up |-> sig_len_up]
    ELSE IF geneset[j] \in DOMAIN up_sort
         THEN CollectRanks(geneset, up_sort, j + 1, Append(su, up_sort[geneset[j]]), sig_len_up)
         ELSE CollectRanks(geneset, up_sort, j + 1, su, sig_len_up - 1)

\* np.mean(su): not-a-number (with a warning, no error) for an empty list
Mean(su) == IF Len(su) = 0 THEN NaN ELSE Rat(SeqSum(su), Len(su))

\* gssnng.util.normalisation, norm_method 'standard': score / library_len.
\* library_len = 0 only when su is empty, where score is already not-a-number.
Normalisation(norm_method, library_len, score_list, score, sig_len) ==
    RatDivInt(score, library_len)

\* statsmodels.robust.scale.mad(su) * c: median(|su - median(su)|),
\* not-a-number for an empty list
Mad(su) ==
    IF Len(su) = 0 THEN NaN
    ELSE LET m2 == Median2(su)
             dev2 == [k \in 1..Len(su) |-> Abs(2 * su[k] - m2)]
         IN  Rat(Median2(dev2), 4)

\* the locals of one _ms_sing call: the geneset, the index of x, su,
\* sig_len_up, and the returned dict
MsSingLocals(geneset, x, norm_method, rankup) ==
    LET up_sort == RankMin(x, rankup)
        r == CollectRanks(geneset, up_sort, 1, <<>>, Len(geneset))
        score_up == Mean(r.su)
        norm_up == RatAdd(Normalisation(norm_method, Cardinality(DOMAIN x), r.su, score_up, r.sig_len_up),
                          Rat(-1, 2))
    IN  [geneset |-> geneset, index |-> DOMAIN x, su |-> r.su, sig_len_up |-> r.sig_len_up,
         out |-> [total_score |-> norm_up, mad_up |-> Mad(r.su)]]


\* --------------------------------------- score_cells.py: the per-cell data
\* line 170: ('normalization' in method_params) and (== 'average') and (noise_trials > 0);
\* np is "absent" when method_params has no 'normalization' key
NoiseNeverSelected(np, nt) == FALSE

NoiseSelected(np, nt) == np # "absent" /\ np = "average" /\ nt > 0

\* _get_cell_data past the noise test: counts of the stored genes and, when
\* ranked, uprank (min rank, ascending) and dnrank = max(uprank) - uprank
GetCellData(row, isRanked) ==
    LET counts == GeneCounts(row)
        uprank == RankMin(counts, TRUE)
        top == IF DOMAIN uprank = {} THEN 0
               ELSE CHOOSE m \in {uprank[g] : g \in DOMAIN uprank} : \A g \in DOMAIN uprank : uprank[g] <= m
    IN  [counts |-> counts,
         uprank |-> IF isRanked THEN uprank ELSE [g \in {} |-> 0],
         dnrank |-> IF isRanked THEN [g \in DOMAIN uprank |-> top - uprank[g]] ELSE [g \in {} |-> 0]]

\* gssnng.score_funs.scorefun: the rank-sum score of section 4.4 of the
\* design (mean rank of the members present, standard normalisation, - 0.5)
ScoreFun(gs, df_cell, isRanked) ==
    LET up_sort == IF isRanked THEN df_cell.uprank ELSE RankMin(df_cell.counts, TRUE)
        r == CollectRanks(gs.genes, up_sort, 1, <<>>, Len(gs.genes))
    IN  RatAdd(Normalisation("standard", Cardinality(DOMAIN df_cell.counts), r.su, Mean(r.su), r.sig_len_up),
               Rat(-1, 2))

\* the dict `results` of one cell: one entry per gene set, keyed by its name
CellResults(row, isRanked) ==
    LET df_cell == GetCellData(row, isRanked)
    IN  [n \in SetNames |->
            LET gs == CHOOSE g \in {SetList[k] : k \in 1..Len(SetList)} : g.name = n
            IN  ScoreFun(gs, df_cell, isRanked)]

\* ------------------------------------------------------------------- state
VARIABLES
    entry,                \* the entry point called: "with_gene_sets" or "score_cells"
    pc,                   \* position of the calling process
    ret,                  \* value returned by the entry point ("running" before it returns)
    exc,                  \* exception that left the entry point ("none" if none)
    obs,                  \* adata.obs: rows [barcode, label, scores]
    groupby,              \* kind of the groupby argument: "None", "str", "list", "dict"
    recompute_neighbors,
    normalization,        \* method_params['normalization'] ("absent": no key) / mode
    noise_trials,
    ranked,
    cores,
    gene_set_up,          \* [isNone, genes]
    gene_set_down,
    valres,               \* what error_checking answered ("unset" before the call)
    nValidations,         \* calls of error_checking
    nNeighbors,           \* calls of sc.pp.neighbors
    nSmooth,              \* calls of nn_smoothing
    pool,                 \* "none", "open", "closed"
    cats,                 \* categories the grouping loop has still to visit
    data_list,            \* tasks [cells, group_name]
    tstate,               \* per task: "queued", "running", "ok", "failed"
    tresult,              \* per task: rows [barcode, scores] appended so far
    firstError,           \* the first exception a worker raised ("none" if none)
    res0,                 \* [set, tables]: what starmap_async(...).get() returned
    all_scores,           \* [kind, rows]: what _proc_data returned
    results,              \* score_cells: the list of score records
    msCalls               \* locals of the _ms_sing calls of the last scored cell

vars == <<entry, pc, ret, exc, obs, groupby, recompute_neighbors, normalization,
          noise_trials, ranked, cores, gene_set_up, gene_set_down, valres,
          nValidations, nNeighbors, nSmooth, pool, cats, data_list, tstate,
          tresult, firstError, res0, all_scores, results, msCalls>>

params == <<entry, groupby, recompute_neighbors, normalization, noise_trials,
            ranked, cores, gene_set_up, gene_set_down>>

poolState == <<pool, cats, data_list, tstate, tresult, firstError, res0, all_scores>>

counters == <<nValidations, nNeighbors, nSmooth>>

NoScores == [c \in {} |-> NaN]

\* adata.obs before the call: one row per cell, barcodes unique, no score column
Obs0(labels) == [i \in Cells |-> [barcode |-> i, label |-> labels[i], scores |-> NoScores]]

None == [isNone |-> TRUE, genes |-> <<>>]

Some(g) == [isNone |-> FALSE, genes |-> g]

InitCommon ==
    /\ pc = "start" /\ ret = "running" /\ exc = "none"
    /\ valres = "unset" /\ nValidations = 0 /\ nNeighbors = 0 /\ nSmooth = 0
    /\ pool = "none" /\ cats = {} /\ data_list = <<>> /\ tstate = <<>> /\ tresult = <<>>
    /\ firstError = "none"
    /\ res0 = [set |-> FALSE, tables |-> <<>>]
    /\ all_scores = [kind |-> "unset", rows |-> <<>>]
    /\ results = <<>> /\ msCalls = <<>>

InitWithGeneSets ==
    /\ entry = "with_gene_sets"
    /\ \E labels \in [Cells -> Categories] : obs = Obs0(labels)
    /\ groupby \in {"None", "str", "list", "dict"}
    /\ recompute_neighbors \in RecomputeValues
    /\ normalization \in {"absent", "average", "theoretical"}
    /\ noise_trials \in NoiseTrialsValues
    /\ ranked \in BOOLEAN
    /\ cores \in 0..MaxCores
    /\ gene_set_up = None /\ gene_set_down = None

InitScoreCells ==
    /\ entry = "score_cells"
    /\ obs = Obs0([i \in Cells |-> "a"])
    /\ groupby = "None" /\ recompute_neighbors = 0 /\ ranked = FALSE /\ cores = 1
    /\ normalization \in {"average", "theoretical"}
    /\ noise_trials \in NoiseTrialsValues
    /\ gene_set_up \in {None} \cup {Some(g) : g \in GeneLists}
    /\ gene_set_down \in {None} \cup {Some(g) : g \in GeneLists}

Init == InitCommon /\ (InitWithGeneSets \/ InitScoreCells)

\* ------------------------------------------ score_cells.py: with_gene_sets
\* line 53: error_checking(...) == 'ERROR'
ValidationIgnored(v) == FALSE

ValidationFailed(v) == v = "ERROR"

\* lines 51-54: load the gene sets, validate once, return "ERROR" on failure
WithGeneSetsCheck ==
    /\ entry = "with_gene_sets" /\ pc = "start"
    /\ \E v \in {"OK", "ERROR"} :
        /\ valres' = v
        /\ nValidations' = nValidations + 1
        /\ IF ValidationFailed(v)
           THEN ret' = "ERROR" /\ pc' = "done"
           ELSE ret' = ret /\ pc' = "proc_data"
    /\ UNCHANGED <<params, exc, obs, nNeighbors, nSmooth, poolState, results, msCalls>>

\* ---------------------------------------------- score_cells.py: _proc_data
\* the type tests of lines 108, 115, 128 and 131 on the groupby argument;
\* line 131 compares type(groupby) with a dict instance, which is never equal
IsNoneType(g) == g = "None"

IsStrType(g) == g = "str"

IsListType(g) == g = "list"

IsDictType(g) == FALSE

\* adata[adata.obs[groupby] == ci]: the barcodes of the rows labelled ci, in row order
RECURSIVE RowsWhere(_, _, _)
RowsWhere(table, i, ci) ==
    IF i > Len(table) THEN <<>>
    ELSE IF table[i].label = ci
         THEN <<table[i].barcode>> \o RowsWhere(table, i + 1, ci)
         ELSE RowsWhere(table, i + 1, ci)

\* a selection that also takes the rows of every category sorted before ci
RECURSIVE RowsUpTo(_, _, _)
RowsUpTo(table, i, ci) ==
    IF i > Len(table) THEN <<>>
    ELSE IF table[i].label = ci \/ (ci = "b" /\ table[i].label = "a")
         THEN <<table[i].barcode>> \o RowsUpTo(table, i + 1, ci)
         ELSE RowsUpTo(table, i + 1, ci)

GroupCellsOverlapping(table, ci) == RowsUpTo(table, 1, ci)

GroupCells(table, ci) == RowsWhere(table, 1, ci)

AllCells(table) == [i \in 1..Len(table) |-> table[i].barcode]

Recomputed(n) == IF n > 0 THEN 1 ELSE 0

\* lines 108-113: groupby is None, one task holding every cell
ProcDataNone ==
    /\ pc = "proc_data" /\ IsNoneType(groupby)
    /\ nNeighbors' = nNeighbors + Recomputed(recompute_neighbors)
    /\ nSmooth' = nSmooth + 1
    /\ data_list' = Append(data_list, [cells |-> AllCells(obs), group_name |-> "single_group"])
    /\ pc' = "pool"
    /\ UNCHANGED <<params, ret, exc, obs, valres, nValidations, pool, cats, tstate, tresult,
                   firstError, res0, all_scores, results, msCalls>>

\* lines 115-116: groupby is a column label, cats = set(adata.obs[groupby])
ProcDataCats ==
    /\ pc = "proc_data" /\ ~IsNoneType(groupby) /\ IsStrType(groupby)
    /\ cats' = {obs[i].label : i \in 1..Len(obs)}
    /\ pc' = "groups"
    /\ UNCHANGED <<params, ret, exc, obs, valres, counters, pool, data_list, tstate, tresult,
                   firstError, res0, all_scores, results, msCalls>>

\* lines 117-125: one pass of the loop over cats (a set: any order)
ProcDataGroup ==
    /\ pc = "groups"
    /\ \E ci \in cats :
        /\ data_list' = Append(data_list, [cells |-> GroupCells(obs, ci), group_name |-> ci])
        /\ cats' = cats \ {ci}
        /\ pc' = IF cats \ {ci} = {} THEN "pool" ELSE "groups"
    /\ nNeighbors' = nNeighbors + Recomputed(recompute_neighbors)
    /\ nSmooth' = nSmooth + 1
    /\ UNCHANGED <<params, ret, exc, obs, valres, nValidations, pool, tstate, tresult,
                   firstError, res0, all_scores, results, msCalls>>

\* lines 128-129: groupby is a list, _proc_data returns "ERROR"
ProcDataList ==
    /\ pc = "proc_data" /\ ~IsNoneType(groupby) /\ ~IsStrType(groupby) /\ IsListType(groupby)
    /\ all_scores' = [kind |-> "ERROR", rows |-> <<>>]
    /\ pc' = "join"
    /\ UNCHANGED <<params, ret, exc, obs, valres, counters, pool, cats, data_list, tstate,
                   tresult, firstError, res0, results, msCalls>>

\* lines 131-134: the dict test; when it is false too, control falls through
\* to the pool with data_list still empty
ProcDataOther ==
    /\ pc = "proc_data" /\ ~IsNoneType(groupby) /\ ~IsStrType(groupby) /\ ~IsListType(groupby)
    /\ IF IsDictType(groupby)
       THEN all_scores' = [kind |-> "ERROR: dict not implemented", rows |-> <<>>] /\ pc' = "join"
       ELSE all_scores' = all_scores /\ pc' = "pool"
    /\ UNCHANGED <<params, ret, exc, obs, valres, counters, pool, cats, data_list, tstate,
                   tresult, firstError, res0, results, msCalls>>

\* line 134: Pool(processes=cores) raises for cores < 1; line 135 submits
\* every task of data_list
PoolOpen ==
    /\ pc = "pool"
    /\ IF cores < 1
       THEN /\ exc' = "ValueError: Number of processes must be at least 1"
            /\ pc' = "done"
            /\ UNCHANGED <<pool, tstate, tresult>>
       ELSE /\ pool' = "open"
            /\ tstate' = [t \in 1..Len(data_list) |-> "queued"]
            /\ tresult' = [t \in 1..Len(data_list) |-> <<>>]
            /\ pc' = "get"
            /\ exc' = exc
    /\ UNCHANGED <<params, ret, obs, valres, counters, cats, data_list, firstError, res0,
                   all_scores, results, msCalls>>

Tasks == 1..Len(tstate)

Running == {t \in Tasks : tstate[t] = "running"}

\* a free pool process takes the next task of the queue
WorkerStart(t) ==
    /\ pool = "open" /\ tstate[t] = "queued"
    /\ \A u \in Tasks : tstate[u] = "queued" => t <= u
    /\ Cardinality(Running) < cores
    /\ tstate' = [tstate EXCEPT ![t] = "running"]
    /\ UNCHANGED <<params, pc, ret, exc, obs, valres, counters, pool, cats, data_list, tresult,
                   firstError, res0, all_scores, results, msCalls>>

Fail(t, e) ==
    /\ tstate' = [tstate EXCEPT ![t] = "failed"]
    /\ firstError' = IF firstError = "none" THEN e ELSE firstError

\* lines 211-217 of _score_all_cells_all_sets: one pass of the loop over the
\* cells of the group; _get_cell_data raises when noise is selected (line 172)
WorkerCell(t) ==
    /\ pool = "open" /\ tstate[t] = "running"
    /\ Len(tresult[t]) < Len(data_list[t].cells)
    /\ IF NoiseSelected(normalization, noise_trials)
       THEN Fail(t, "ValueError: not implemented") /\ tresult' = tresult
       ELSE \E row \in Rows :
              /\ tresult' = [tresult EXCEPT ![t] =
                    Append(@, [barcode |-> data_list[t].cells[Len(tresult[t]) + 1],
                               scores |-> CellResults(row, ranked)])]
              /\ UNCHANGED <<tstate, firstError>>
    /\ UNCHANGED <<params, pc, ret, exc, obs, valres, counters, pool, cats, data_list, res0,
                   all_scores, results, msCalls>>

\* line 216: the external scorefun raises for the cell at hand
WorkerScoreFunRaises(t) ==
    /\ pool = "open" /\ tstate[t] = "running"
    /\ Len(tresult[t]) < Len(data_list[t].cells)
    /\ ~NoiseSelected(normalization, noise_trials)
    /\ Fail(t, "scorefun error")
    /\ UNCHANGED <<params, pc, ret, exc, obs, valres, counters, pool, cats, data_list, tresult,
                   res0, all_scores, results, msCalls>>

\* lines 218-219: the loop is over, the group's table is returned
WorkerReturn(t) ==
    /\ pool = "open" /\ tstate[t] = "running"
    /\ Len(tresult[t]) = Len(data_list[t].cells)
    /\ tstate' = [tstate EXCEPT ![t] = "ok"]
    /\ UNCHANGED <<params, pc, ret, exc, obs, valres, counters, pool, cats, data_list, tresult,
                   firstError, res0, all_scores, results, msCalls>>

\* MapResult: get() re-raises the first exception once every task is done
GetNeverRaises(ts) == FALSE

GetRaises(ts) == \E t \in 1..Len(ts) : ts[t] = "failed"

RECURSIVE StackRows(_)
StackRows(tables) == IF Len(tables) = 0 THEN <<>> ELSE Head(tables) \o StackRows(Tail(tables))

\* lines 135-138: .get() waits for every task, then raises or returns the
\* tables in submission order (leaving the with block ends the pool);
\* pd.concat(res0, axis=0) raises for an empty list; return res1
PoolGetConcat ==
    /\ pc = "get"
    /\ \A t \in Tasks : tstate[t] \in {"ok", "failed"}
    /\ pool' = "closed"
    /\ IF GetRaises(tstate)
       THEN exc' = firstError /\ pc' = "done" /\ res0' = res0 /\ all_scores' = all_scores
       ELSE /\ res0' = [set |-> TRUE, tables |-> tresult]
            /\ IF Len(tresult) = 0
               THEN exc' = "ValueError: No objects to concatenate" /\ pc' = "done"
                    /\ all_scores' = all_scores
               ELSE exc' = exc /\ pc' = "join"
                    /\ all_scores' = [kind |-> "table", rows |-> StackRows(tresult)]
    /\ UNCHANGED <<params, ret, obs, valres, counters, cats, data_list, tstate, tresult,
                   firstError, results, msCalls>>

\* the columns a left row gets from the right row m
Joined(l, m) ==
    [barcode |-> l.barcode, label |-> l.label,
     scores |-> [c \in DOMAIN l.scores \cup SetNames |->
                    IF c \in SetNames THEN m.scores[c] ELSE l.scores[c]]]

Unmatched(l) == Joined(l, [scores |-> [c \in SetNames |-> NaN]])

SameBarcode(l, r) == r.barcode = l.barcode

\* obs.join on row position instead of the index
JoinByPosition(left, right) ==
    [i \in 1..Len(left) |-> IF i <= Len(right) THEN Joined(left[i], right[i]) ELSE Unmatched(left[i])]

\* rows of obs followed by the rows of the score table
JoinAsRowStack(left, right) ==
    [i \in 1..(Len(left) + Len(right)) |->
        IF i <= Len(left) THEN Unmatched(left[i])
        ELSE Joined([barcode |-> right[i - Len(left)].barcode, label |-> "a", scores |-> NoScores],
                    right[i - Len(left)])]

\* adata.obs.join(all_scores, how='left'): every left row in order, once per
\* right row of the same index, with empty fields when there is none
RECURSIVE LeftJoin(_, _)
LeftJoin(left, right) ==
    IF Len(left) = 0 THEN <<>>
    ELSE LET l == Head(left)
             ms == SelectSeq(right, LAMBDA r : SameBarcode(l, r))
         IN  (IF Len(ms) = 0 THEN <<Unmatched(l)>> ELSE [k \in 1..Len(ms) |-> Joined(l, ms[k])])
             \o LeftJoin(Tail(left), right)

\* line 61: join; joining the string "ERROR" raises inside pandas; lines 63-64
Join ==
    /\ pc = "join"
    /\ IF all_scores.kind # "table"
       THEN exc' = "AttributeError" /\ ret' = ret /\ obs' = obs
       ELSE exc' = exc /\ ret' = "adata" /\ obs' = LeftJoin(obs, all_scores.rows)
    /\ pc' = "done"
    /\ UNCHANGED <<params, valres, counters, poolState, results, msCalls>>

\* ------------------------------------------------ scoring.py: score_cells
\* line 127: mode == 'average' and noise_trials > 0
LegacyNoiseSelected(mode, nt) == mode = "average" /\ nt > 0

WithCB(s, cb) == [k \in DOMAIN s \cup {"CB"} |-> IF k = "CB" THEN cb ELSE s[k]]

\* line 139: s['mad_down'] = s.pop('mad_up')
PopMadUp(s) ==
    [k \in (DOMAIN s \ {"mad_up"}) \cup {"mad_down"} |-> IF k = "mad_down" THEN s["mad_up"] ELSE s[k]]

\* lines 140-148 with total_score taken from the up set alone
BothRecordUpOnly(s_up, s_down) ==
    [total_score |-> s_up.total_score,
     mad_up |-> s_up.mad_up,
     mad_down |-> s_down.mad_up,
     up_score |-> s_up.total_score,
     dn_score |-> s_down.total_score]

\* lines 143-148: the record when both gene sets are scored
BothRecord(s_up, s_down) ==
    [total_score |-> RatAdd(s_up.total_score, s_down.total_score),
     mad_up |-> s_up.mad_up,
     mad_down |-> s_down.mad_up,
     up_score |-> s_up.total_score,
     dn_score |-> s_down.total_score]

\* lines 135-149 for one cell with stored counts x and barcode cb: the
\* record s and the locals of the _ms_sing calls made for it
ScoreRecord(up, down, x, cb) ==
    IF ~up.isNone /\ down.isNone
    THEN LET c == MsSingLocals(up.genes, x, "standard", TRUE)
         IN  [s |-> WithCB(c.out, cb), calls |-> <<c>>]
    ELSE IF up.isNone /\ ~down.isNone
    THEN LET c == MsSingLocals(down.genes, x, "standard", FALSE)
         IN  [s |-> WithCB(PopMadUp(c.out), cb), calls |-> <<c>>]
    ELSE LET cu == MsSingLocals(up.genes, x, "standard", TRUE)
             cd == MsSingLocals(down.genes, x, "standard", FALSE)
         IN  [s |-> WithCB(BothRecord(cu.out, cd.out), cb), calls |-> <<cu, cd>>]

\* lines 43-49: validate, return () on failure, else smooth the matrix
ScoreCellsCheck ==
    /\ entry = "score_cells" /\ pc = "start"
    /\ \E v \in {"OK", "ERROR"} :
        /\ valres' = v
        /\ nValidations' = nValidations + 1
        /\ IF v = "ERROR"
           THEN ret' = "()" /\ pc' = "done" /\ nSmooth' = nSmooth
           ELSE ret' = ret /\ pc' = "cells" /\ nSmooth' = nSmooth + 1
    /\ UNCHANGED <<params, exc, obs, nNeighbors, poolState, results, msCalls>>

\* lines 116-150 of _score_all_cells_at_once: one pass of the loop over the
\* cells; with both gene sets None the else branch calls len(None)
ScoreCell ==
    /\ pc = "cells" /\ Len(results) < Len(obs)
    /\ IF LegacyNoiseSelected(normalization, noise_trials)
       THEN exc' = "ValueError: not implemented" /\ pc' = "done" /\ UNCHANGED <<results, msCalls>>
       ELSE IF gene_set_up.isNone /\ gene_set_down.isNone
       THEN exc' = "TypeError" /\ pc' = "done" /\ UNCHANGED <<results, msCalls>>
       ELSE \E row \in Rows :
              LET r == ScoreRecord(gene_set_up, gene_set_down, GeneCounts(row),
                                   obs[Len(results) + 1].barcode)
              IN  /\ results' = Append(results, r.s)
                  /\ msCalls' = r.calls
                  /\ UNCHANGED <<exc, pc>>
    /\ UNCHANGED <<params, ret, obs, valres, counters, poolState>>

\* lines 60-61: adata.obs[key_added] = the total scores; return all_scores
ScoreCellsReturn ==
    /\ pc = "cells" /\ Len(results) = Len(obs)
    /\ obs' = [i \in 1..Len(obs) |->
                [obs[i] EXCEPT !.scores = [c \in {"key_added"} |-> results[i]["total_score"]]]]
    /\ ret' = "all_scores"
    /\ pc' = "done"
    /\ UNCHANGED <<params, exc, valres, counters, poolState, results, msCalls>>

\* ------------------------------------------------------------------- spec
Next ==
    \/ WithGeneSetsCheck
    \/ ProcDataNone
    \/ ProcDataCats
    \/ ProcDataGroup
    \/ ProcDataList
    \/ ProcDataOther
    \/ PoolOpen
    \/ \E t \in Tasks : WorkerStart(t)
    \/ \E t \in Tasks : WorkerCell(t)
    \/ \E t \in Tasks : WorkerScoreFunRaises(t)
    \/ \E t \in Tasks : WorkerReturn(t)
    \/ PoolGetConcat
    \/ Join
    \/ ScoreCellsCheck
    \/ ScoreCell
    \/ ScoreCellsReturn

Spec == Init /\ [][Next]_vars

\* ----------------------------------------------------------------- claims
\* adata.obs is as it was before the call: the input rows, no score column
ObsUntouched ==
    /\ Len(obs) = NCells
    /\ \A i \in 1..Len(obs) : obs[i].barcode = i /\ DOMAIN obs[i].scores = {}

NoiseConfig == normalization = "average" /\ noise_trials > 0

\* C1: with groupby a list and validation passed, with_gene_sets returns the
\* "ERROR" sentinel without raising, adata.obs is unchanged and no worker is
\* dispatched.  (The code raises: line 61 joins the string onto adata.obs.)
C1_ListReturnsSentinel ==
    (entry = "with_gene_sets" /\ groupby = "list" /\ cores >= 1 /\ valres = "OK" /\ pc = "done")
        => (ret = "ERROR" /\ exc = "none" /\ ObsUntouched /\ pool = "none")

\* C2: a dict groupby is rejected by _proc_data with a failure signal that is
\* not a result table; no group is built, no pool is run for it, not even with
\* an empty task list.  (The code never takes the dict branch.)
C2_DictRejected ==
    (entry = "with_gene_sets" /\ groupby = "dict" /\ cores >= 1)
        => /\ data_list = <<>> /\ pool = "none"
           /\ (valres = "OK" /\ pc \in {"join", "done"})
                => all_scores.kind \notin {"unset", "table"}

\* C3: error_checking runs once and before any other work; when it answers
\* ERROR the call returns "ERROR" without raising, and no neighbour
\* recomputation, smoothing, dispatch or change of adata.obs happens.
C3_ValidationFirst ==
    entry = "with_gene_sets" =>
        /\ nValidations <= 1
        /\ (nNeighbors > 0 \/ nSmooth > 0 \/ pool # "none" \/ data_list # <<>> \/ ~ObsUntouched)
              => (nValidations = 1 /\ valres = "OK")
        /\ valres = "ERROR"
              => /\ nValidations = 1 /\ nNeighbors = 0 /\ nSmooth = 0
                 /\ pool = "none" /\ data_list = <<>> /\ tstate = <<>>
                 /\ ObsUntouched
                 /\ pc = "done" /\ ret = "ERROR" /\ exc = "none"

C3_Witness ==
    /\ entry = "with_gene_sets" /\ valres = "ERROR" /\ pc = "done" /\ ret = "ERROR"
    /\ groupby = "str" /\ recompute_neighbors > 0 /\ cores > 0

\* C4: after a successful with_gene_sets call (groupby None or a column,
\* barcodes unique) adata.obs has exactly one row per input cell and the same
\* barcodes; a cell without a score row keeps its row with empty score fields.
C4_OneRowPerCell ==
    (entry = "with_gene_sets" /\ pc = "done" /\ ret = "adata") =>
        /\ groupby \in {"None", "str"}
        /\ Len(obs) = NCells
        /\ \A c \in Cells : Cardinality({i \in 1..Len(obs) : obs[i].barcode = c}) = 1
        /\ \A i \in 1..Len(obs) :
              /\ DOMAIN obs[i].scores = SetNames
              /\ (\A k \in 1..Len(all_scores.rows) : all_scores.rows[k].barcode # obs[i].barcode)
                    => \A n \in SetNames : IsNaN(obs[i].scores[n])

C4_Witness ==
    /\ entry = "with_gene_sets" /\ pc = "done" /\ ret = "adata"
    /\ groupby = "str" /\ Len(data_list) = 2 /\ Len(obs) = NCells

\* C5: with groupby a column, _proc_data builds one task per distinct label;
\* the groups are pairwise disjoint, their sizes sum to N and every cell is in
\* exactly one of them; with groupby None there is one group, 'single_group',
\* holding all N cells.
C5_GroupsPartition ==
    (entry = "with_gene_sets" /\ valres = "OK" /\ pc \notin {"start", "proc_data", "groups"}) =>
        LET labels == {obs[i].label : i \in 1..Len(obs)}
            T == 1..Len(data_list)
            members(t) == {data_list[t].cells[k] : k \in 1..Len(data_list[t].cells)}
            sizes == [t \in T |-> Len(data_list[t].cells)]
        IN  /\ groupby = "str" =>
                /\ Len(data_list) = Cardinality(labels)
                /\ {data_list[t].group_name : t \in T} = labels
                /\ \A t, u \in T : t # u => members(t) \cap members(u) = {}
                /\ SeqSum(sizes) = NCells
                /\ \A t \in T : Cardinality(members(t)) = sizes[t]
                /\ \A c \in Cells : Cardinality({t \in T : c \in members(t)}) = 1
                /\ \A t \in T : \A c \in members(t) : obs[c].label = data_list[t].group_name
            /\ groupby = "None" =>
                /\ Len(data_list) = 1
                /\ data_list[1].group_name = "single_group"
                /\ data_list[1].cells = [i \in Cells |-> i]

C5_Witness ==
    /\ entry = "with_gene_sets" /\ pc = "pool" /\ groupby = "str"
    /\ Len(data_list) = 2

\* C6: in the single-gene-set path every record has, with both gene sets,
\* total_score = up_score + dn_score and both mad_up and mad_down; with only
\* the up set total_score and mad_up and none of mad_down, up_score,
\* dn_score; with only the down set total_score and mad_down and none of
\* mad_up, up_score, dn_score.
C6_LegacyRecordFields ==
    entry = "score_cells" =>
        \A k \in 1..Len(results) :
            LET s == results[k]
                F == DOMAIN s
            IN  /\ (~gene_set_up.isNone /\ ~gene_set_down.isNone) =>
                      /\ {"total_score", "up_score", "dn_score", "mad_up", "mad_down"} \subseteq F
                      /\ s["total_score"] = RatAdd(s["up_score"], s["dn_score"])
                /\ (~gene_set_up.isNone /\ gene_set_down.isNone) =>
                      /\ {"total_score", "mad_up"} \subseteq F
                      /\ F \cap {"mad_down", "up_score", "dn_score"} = {}
                /\ (gene_set_up.isNone /\ ~gene_set_down.isNone) =>
                      /\ {"total_score", "mad_down"} \subseteq F
                      /\ F \cap {"mad_up", "up_score", "dn_score"} = {}

C6_Witness ==
    /\ entry = "score_cells" /\ pc = "done" /\ ret = "all_scores"
    /\ ~gene_set_up.isNone /\ ~gene_set_down.isNone
    /\ Len(results) = NCells
    /\ ~IsNaN(results[1]["up_score"]) /\ ~IsNaN(results[1]["dn_score"])
    /\ results[1]["dn_score"] # <<0, 1>>

\* C7: _ms_sing lowers the effective signature length once per gene-set
\* member absent from the cell's ranked index, so it equals the number of
\* collected ranks; when no member is present the score is not-a-number, not
\* an error and not 0.
C7_EffectiveLength ==
    /\ msCalls # <<>> => exc = "none"
    /\ \A k \in 1..Len(msCalls) :
          LET c == msCalls[k]
              absent == {j \in 1..Len(c.geneset) : c.geneset[j] \notin c.index}
          IN  /\ c.sig_len_up = Len(c.geneset) - Cardinality(absent)
              /\ c.sig_len_up = Len(c.su)
              /\ c.sig_len_up = 0 => (IsNaN(c.out.total_score) /\ c.out.total_score # <<0, 1>>)
              /\ c.sig_len_up > 0 => ~IsNaN(c.out.total_score)

C7_Witness ==
    /\ entry = "score_cells" /\ exc = "none"
    /\ \E k \in 1..Len(msCalls) :
          /\ Len(msCalls[k].geneset) > 0 /\ msCalls[k].index # {}
          /\ msCalls[k].sig_len_up = 0 /\ IsNaN(msCalls[k].out.total_score)

C9_WorkerFailureAborts ==
    (entry = "with_gene_sets" /\ \E t \in Tasks : tstate[t] = "failed") =>
        /\ ~res0.set /\ all_scores.kind = "unset"
        /\ ObsUntouched
        /\ ret = "running"
        /\ pc \in {"get", "done"}
        /\ firstError # "none"
        /\ pc = "done" => exc = firstError

C9_Witness ==
    /\ entry = "with_gene_sets" /\ pc = "done" /\ exc = "scorefun error"
    /\ \E t, u \in Tasks : /\ t < u /\ tstate[u] = "failed"
                           /\ tstate[t] = "ok" /\ Len(tresult[t]) > 0

\* C10: the merge runs only after every dispatched worker has returned; each
\* per-group table lists the group's cells in their input order, keyed by
\* barcode; after the merge adata.obs is in the input row order and every row
\* carries the scores computed for its own barcode, whatever the order in
\* which the workers ran.
C10_MergeAfterAllWorkers ==
    entry = "with_gene_sets" =>
        /\ (res0.set \/ all_scores.kind = "table" \/ ret = "adata")
              => (Len(tstate) = Len(data_list) /\ \A t \in Tasks : tstate[t] = "ok")
        /\ \A t \in Tasks :
              /\ Len(tresult[t]) <= Len(data_list[t].cells)
              /\ \A k \in 1..Len(tresult[t]) : tresult[t][k].barcode = data_list[t].cells[k]
              /\ tstate[t] = "ok" => Len(tresult[t]) = Len(data_list[t].cells)
              /\ \A k \in 1..(Len(data_list[t].cells) - 1) :
                    data_list[t].cells[k] < data_list[t].cells[k + 1]
        /\ (pc = "done" /\ ret = "adata") =>
              /\ Len(obs) = NCells
              /\ \A i \in 1..Len(obs) :
                    /\ obs[i].barcode = i
                    /\ \E t \in Tasks : \E k \in 1..Len(tresult[t]) :
                          /\ tresult[t][k].barcode = i
                          /\ obs[i].scores = tresult[t][k].scores

C10_Witness ==
    /\ entry = "with_gene_sets" /\ pc = "done" /\ ret = "adata" /\ cores >= 2
    /\ Len(data_list) = 2
    /\ data_list[1].cells[1] > data_list[2].cells[1]
    /\ tresult[1][1].scores # tresult[2][1].scores

=============================================================================
